---- MODULE Spec2Model ----
(***************************************************************************)
(* Chat client of projeto-paa: the Conversation Controller (Home,          *)
(* handleSendMessage) and the Proxy Endpoint (POST /api/chat).             *)
(*                                                                         *)
(* Texts are run-length encoded: a text is a sequence of runs <<a, n>>,    *)
(* n >= 1 copies of the atom a, adjacent runs having different atoms.  An  *)
(* atom is one character (" " is whitespace) or, for the fixed messages of *)
(* the code, a whole phrase.  Reals are counted in hundredths (0.7 is 70). *)
(* An optional number or boolean is the empty set or a singleton; an       *)
(* optional text is Undef or a text.                                       *)
(***************************************************************************)
EXTENDS Integers, Sequences, FiniteSets, TLC

\* ------------------------------------------------------------------ bounds

\* Send cycles explored with the controller that sends `messages` (page.tsx).
MaxHistoryCycles == 7
\* Send cycles explored with the controller that sends `prompt`.
MaxPromptCycles == 2
MaxClock == 4
MaxClockCycles == 2
\* Pieces (a fence marker, a newline, a blank, a word, a line of code) of the
\* longest reply rendered.
MaxReplyLen == 5

\* ------------------------------------------------------- program constants

HistoryWindow == 10
MaxPromptLength == 2000
DefaultMaxTokens == 512
DefaultTemperature == 70
MinTemperature == 0
MaxTemperature == 100
ClientMaxTokens == 512
ClientTemperature == 70
WelcomeId == 0
LoadingIdOffset == 1
AssistantIdOffset == 2
ErrorIdOffset == 3

\* ------------------------------------------------------------------- texts

WS == " "
NL == "\n"
\* the characters \s matches and trim removes
Spaces == {WS, NL}
\* the fence marker, three backticks in a row
Fence == "[fence]"
\* pieces made of \w characters only
WordAtoms == {"python", "a"}
Undef == << <<"undefined", 0>> >>
Txt(a, n) == IF n = 0 THEN <<>> ELSE << <<a, n>> >>
Phrase(a) == Txt(a, 1)

\* String.prototype.length
RECURSIVE Length(_)
Length(s) == IF s = <<>> THEN 0 ELSE Head(s)[2] + Length(Tail(s))

\* a + b on strings
Concat(a, b) ==
  IF a = <<>> THEN b
  ELSE IF b = <<>> THEN a
  ELSE IF a[Len(a)][1] = b[1][1]
       THEN SubSeq(a, 1, Len(a) - 1) \o << <<b[1][1], a[Len(a)][2] + b[1][2]>> >> \o Tail(b)
       ELSE a \o b

RECURSIVE TrimStart(_)
TrimStart(s) ==
  IF s = <<>> THEN <<>>
  ELSE IF Head(s)[1] \in Spaces THEN TrimStart(Tail(s)) ELSE s

RECURSIVE TrimEnd(_)
TrimEnd(s) ==
  IF s = <<>> THEN <<>>
  ELSE IF s[Len(s)][1] \in Spaces THEN TrimEnd(SubSeq(s, 1, Len(s) - 1)) ELSE s

\* String.prototype.trim
Trim(s) == TrimEnd(TrimStart(s))

\* JavaScript truthiness of an optional text: undefined and "" are falsy
TruthyText(t) == t # Undef /\ t # <<>>
\* JavaScript truthiness of an optional number: undefined and 0 are falsy
TruthyNum(o) == o # {} /\ o # {0}

\* a || b
OrText(a, b) == IF TruthyText(a) THEN a ELSE b
OrNum(o, d) == IF TruthyNum(o) THEN CHOOSE x \in o : TRUE ELSE d

\* --------------------------------------------------------- fixed messages

WelcomeText == Phrase("Ola! Sou seu assistente Python. Digite uma instrucao e vou gerar codigo Python para voce!")
LoadingText == Phrase("Gerando codigo...")
ErrorPrefix == Phrase("Erro: ")
ErrGeneration == Phrase("Erro na geracao de codigo")
ErrStatusPrefix == Phrase("Erro ")
ErrContentType == Phrase("Content-Type deve ser application/json")
ErrJson == Phrase("JSON invalido")
ErrPromptRequired == Phrase("Prompt e obrigatorio e deve ser string")
ErrPromptEmpty == Phrase("Prompt nao pode estar vazio")
ErrPromptTooLong == Phrase("Prompt muito longo (max 2000 caracteres)")
ErrTemperature == Phrase("Temperature deve estar entre 0 e 1")
ErrIaServerPrefix == Phrase("IA Server error: ")
ErrTimeout == Phrase("Timeout: IA Server demorou muito (45s max)")
ErrConnect == Phrase("Nao conseguiu conectar ao IA Server")
HintPrefix == Phrase("Verifique se Flask esta rodando em ")
ErrInternalPrefix == Phrase("Erro interno: ")
IA_SERVER_URL == Phrase("http://localhost:5000")

\* String.prototype.includes, for the atoms the handlers look for
Substrings ==
  { <<"The operation was aborted due to timeout", "timeout">>,
    <<"Failed to fetch", "Failed to fetch">> }
Includes(t, needle) == \E i \in 1..Len(t) : <<t[i][1], needle>> \in Substrings

\* ------------------------------------------------------------------- state

VARIABLES
  variant,        \* which Home component runs: "messages" (page.tsx) or "prompt"
  messages,       \* useState<Message[]>
  input,          \* useState('')
  loading,        \* useState(false)
  error,          \* useState<string | null>(null); Undef stands for null
  now,            \* Date.now(), in milliseconds; only Tick (ClockSpec) advances it
  outstanding,    \* fetch('/api/chat') calls of the controller not yet settled
  fetchError,     \* rejection of the controller's fetch: {} or {message}
  inbox,          \* HTTP request on its way to POST /api/chat: {} or {request}
  outbox,         \* response returned by POST: {} or {response}
  proxyPc,        \* POST handler: "idle", "awaitUpstream" (at line 112) or "done"
  proxyReq,       \* the request POST is handling or has handled: {} or {request}
  forwarded,      \* body of the outbound call to IA_SERVER_URL/generate: {} or {payload}
  iaResult,       \* settlement of the outbound call: {} or {outcome}
  upstreamCalls,  \* outbound calls made for the request being handled
  view            \* what the last Render returned for each message: <<>> before the first

ctlVars == <<variant, messages, input, loading, error, now, outstanding, fetchError, view>>
proxyVars == <<proxyPc, proxyReq, forwarded, iaResult, upstreamCalls>>
vars == <<variant, messages, input, loading, error, now, outstanding, fetchError,
          inbox, outbox, proxyPc, proxyReq, forwarded, iaResult, upstreamCalls, view>>

\* ---------------------------------------------------------------- messages

Message(id, role, content, isLoading, inferenceTime) ==
  [id |-> id, role |-> role, content |-> content, loading |-> isLoading,
   inferenceTime |-> inferenceTime]

WelcomeMessage == Message(WelcomeId, "assistant", WelcomeText, FALSE, {})

\* Mutant: the placeholder is not filtered out.
RemoveLoading_Keep(msgs) == msgs

\* prev.filter((m) => !m.loading)
RemoveLoading(msgs) == SelectSeq(msgs, LAMBDA m : ~m.loading)

\* messages.filter(msg => !msg.loading && msg.id !== '0').map(msg => ({role, content}))
MessageHistory(msgs) ==
  LET kept == SelectSeq(msgs, LAMBDA m : ~m.loading /\ m.id # WelcomeId)
  IN  [i \in 1..Len(kept) |-> [role |-> kept[i].role, content |-> kept[i].content]]

\* Mutant: the window keeps the oldest entries, slice(0, n).
SliceLast_First(s, n) == IF Len(s) <= n THEN s ELSE SubSeq(s, 1, n)

\* Array.prototype.slice(-n)
SliceLast(s, n) == IF Len(s) <= n THEN s ELSE SubSeq(s, Len(s) - n + 1, Len(s))

RecentHistory(msgs, trimmedInput) ==
  SliceLast(Append(MessageHistory(msgs), [role |-> "user", content |-> trimmedInput]),
            HistoryWindow)

\* ---------------------------------------------------------- wire entities

JUndef == [t |-> "undef", v |-> <<>>]
JStr(s) == [t |-> "str", v |-> s]
JOther == [t |-> "other", v |-> <<>>]

Body(prompt, msgs, maxTokens, temperature) ==
  [prompt |-> prompt, messages |-> msgs, max_tokens |-> maxTokens,
   temperature |-> temperature]

Request(contentType, json, body) ==
  [contentType |-> contentType, json |-> json, body |-> body]

EmptyBody == Body(JUndef, {}, {}, {})

\* JSON.stringify({...}) of the controller's fetch
ChatBody(v, msgs, trimmedInput) ==
  IF v = "messages"
  THEN Body(JUndef, {RecentHistory(msgs, trimmedInput)}, {ClientMaxTokens}, {ClientTemperature})
  ELSE Body(JStr(trimmedInput), {}, {ClientMaxTokens}, {ClientTemperature})

ResponseBody(success, err, details, hint, code, tokens, time, gpu) ==
  [success |-> success, error |-> err, details |-> details, hint |-> hint,
   code |-> code, tokens_generated |-> tokens, inference_time_ms |-> time,
   gpu_memory |-> gpu]

Response(status, body) == [status |-> status, body |-> body]

ErrorResponse(status, err) ==
  Response(status, ResponseBody({}, err, Undef, Undef, Undef, {}, {}, {}))

\* Response.ok
Ok(status) == status >= 200 /\ status <= 299

\* ------------------------------------------------- Proxy Endpoint (POST)

\* catch (error) of POST: the response for a failure with message errorMessage
CatchResponse(errorMessage) ==
  IF Includes(errorMessage, "timeout")
  THEN ErrorResponse(504, ErrTimeout)
  ELSE IF Includes(errorMessage, "Failed to fetch")
  THEN Response(503, ResponseBody({}, ErrConnect, Undef, Concat(HintPrefix, IA_SERVER_URL),
                                  Undef, {}, {}, {}))
  ELSE ErrorResponse(500, Concat(ErrInternalPrefix, errorMessage))

ErrDestructure == Phrase("Cannot destructure property 'prompt' of 'body' as it is null.")

\* !prompt || typeof prompt !== 'string'
PromptMissing(prompt) == prompt.t # "str" \/ prompt.v = <<>>

\* Mutant: only the upper bound is checked.
TemperatureOutOfRange_UpperOnly(temperature) ==
  /\ TruthyNum(temperature)
  /\ \E x \in temperature : x > MaxTemperature

\* temperature && (temperature < 0 || temperature > 1)
TemperatureOutOfRange(temperature) ==
  /\ TruthyNum(temperature)
  /\ \E x \in temperature : x < MinTemperature \/ x > MaxTemperature

\* The checks of POST before the outbound call: {} when the request passes,
\* else the response returned.
Reject(req) ==
  IF ~req.contentType THEN {ErrorResponse(400, ErrContentType)}
  ELSE IF req.json = "invalid" THEN {ErrorResponse(400, ErrJson)}
  ELSE IF req.json = "null" THEN {CatchResponse(ErrDestructure)}
  ELSE IF PromptMissing(req.body.prompt) THEN {ErrorResponse(400, ErrPromptRequired)}
  ELSE IF Length(Trim(req.body.prompt.v)) = 0 THEN {ErrorResponse(400, ErrPromptEmpty)}
  ELSE IF Length(req.body.prompt.v) > MaxPromptLength THEN {ErrorResponse(400, ErrPromptTooLong)}
  ELSE IF TemperatureOutOfRange(req.body.temperature) THEN {ErrorResponse(400, ErrTemperature)}
  ELSE {}

\* max_tokens || 512
ForwardMaxTokens(maxTokens) == OrNum(maxTokens, DefaultMaxTokens)
\* temperature || 0.7
ForwardTemperature(temperature) == OrNum(temperature, DefaultTemperature)

\* JSON.stringify({prompt, max_tokens: ..., temperature: ...}) of the outbound call
Payload(body) ==
  [prompt |-> body.prompt.v,
   max_tokens |-> ForwardMaxTokens(body.max_tokens),
   temperature |-> ForwardTemperature(body.temperature)]

\* POST up to the outbound fetch: a rejected request is answered at once, an
\* accepted one is forwarded and the handler waits for the inference server.
ProxyReceive ==
  /\ inbox # {}
  /\ proxyPc # "awaitUpstream"
  /\ LET req == CHOOSE r \in inbox : TRUE
         rej == Reject(req)
     IN  /\ inbox' = {}
         /\ proxyReq' = {req}
         /\ iaResult' = {}
         /\ IF rej # {}
            THEN /\ outbox' = rej
                 /\ proxyPc' = "done"
                 /\ forwarded' = {}
                 /\ upstreamCalls' = 0
            ELSE /\ outbox' = {}
                 /\ proxyPc' = "awaitUpstream"
                 /\ forwarded' = {Payload(req.body)}
                 /\ upstreamCalls' = 1
  /\ UNCHANGED ctlVars

\* What the inference server, or the connection to it, can answer.
GenerateData(success, code, tokens, time, gpu, err) ==
  [success |-> success, code |-> code, tokens_generated |-> tokens,
   inference_time_ms |-> time, gpu_memory |-> gpu, error |-> err]
NoData == GenerateData({}, Undef, {}, {}, {}, Undef)
IaResponse(status, json, data, text) ==
  [kind |-> "response", cause |-> "none", status |-> status, json |-> json,
   data |-> data, text |-> text, message |-> Undef]
\* fetch rejects: cause is what went wrong on the connection, message the
\* Error.message the runtime gives it (the only thing catch looks at).
IaThrown(cause, message) ==
  [kind |-> "thrown", cause |-> cause, status |-> 0, json |-> FALSE, data |-> NoData,
   text |-> Undef, message |-> message]

GeneratedCode == Phrase("def f(): pass")
UpstreamErrorText == Phrase("Internal Server Error")
UpstreamBusyText == Phrase("Service Unavailable")
UpstreamFailure == Phrase("model not loaded")
ErrJsonParse == Phrase("Unexpected token < in JSON at position 0")

UpstreamOutcomes ==
  { IaResponse(200, TRUE, GenerateData({TRUE}, GeneratedCode, {42}, {123456}, {1}, Undef), Undef),
    IaResponse(200, TRUE, GenerateData({FALSE}, Undef, {}, {}, {}, UpstreamFailure), Undef),
    IaResponse(200, FALSE, NoData, UpstreamErrorText),
    IaResponse(500, FALSE, NoData, UpstreamErrorText),
    IaResponse(503, FALSE, NoData, UpstreamBusyText),
    \* nothing listens at IA_SERVER_URL: Node's fetch (undici) rejects with
    \* TypeError "fetch failed", a browser-like runtime with "Failed to fetch"
    IaThrown("connect", Phrase("fetch failed")),
    IaThrown("connect", Phrase("Failed to fetch")),
    \* an abort signal with a timeout fires
    IaThrown("timeout", Phrase("The operation was aborted due to timeout")) }

\* The inference server answers, or the outbound fetch fails.
UpstreamSettle ==
  /\ proxyPc = "awaitUpstream"
  /\ iaResult = {}
  /\ \E o \in UpstreamOutcomes : iaResult' = {o}
  /\ UNCHANGED <<ctlVars, inbox, outbox, proxyPc, proxyReq, forwarded, upstreamCalls>>

\* Mutant: the relayed error leaves the upstream body text out.
ProxyResponse_NoDetails(o) ==
  IF o.kind = "thrown" THEN CatchResponse(o.message)
  ELSE IF ~Ok(o.status)
  THEN Response(o.status,
                ResponseBody({FALSE}, Concat(ErrIaServerPrefix, Phrase(ToString(o.status))),
                             Undef, Undef, Undef, {}, {}, {}))
  ELSE IF ~o.json THEN CatchResponse(ErrJsonParse)
  ELSE Response(200,
                ResponseBody({TRUE}, Undef, Undef, Undef, o.data.code,
                             o.data.tokens_generated, o.data.inference_time_ms,
                             o.data.gpu_memory))

\* POST after the outbound fetch settled
ProxyResponse(o) ==
  IF o.kind = "thrown" THEN CatchResponse(o.message)
  ELSE IF ~Ok(o.status)
  THEN Response(o.status,
                ResponseBody({FALSE}, Concat(ErrIaServerPrefix, Phrase(ToString(o.status))),
                             o.text, Undef, Undef, {}, {}, {}))
  ELSE IF ~o.json THEN CatchResponse(ErrJsonParse)
  ELSE Response(200,
                ResponseBody({TRUE}, Undef, Undef, Undef, o.data.code,
                             o.data.tokens_generated, o.data.inference_time_ms,
                             o.data.gpu_memory))

ProxyResume ==
  /\ proxyPc = "awaitUpstream"
  /\ iaResult # {}
  /\ outbox' = {ProxyResponse(CHOOSE o \in iaResult : TRUE)}
  /\ proxyPc' = "done"
  /\ UNCHANGED <<ctlVars, inbox, proxyReq, forwarded, iaResult, upstreamCalls>>

\* ------------------------------------- Conversation Controller (Home)

\* What the user types in this model.
UserInputs ==
  { <<>>,
    Txt(WS, 3),
    << <<WS, 1>>, <<"a", 1>>, <<WS, 1>> >>,
    Txt("a", MaxPromptLength + 1) }

\* <input disabled={loading}>
InputDisabled == loading

\* onChange={(e) => setInput(e.target.value)}
TypeInput(txt) ==
  /\ ~InputDisabled
  /\ input' = txt
  /\ UNCHANGED <<variant, messages, loading, error, now, outstanding, fetchError,
                 inbox, outbox, proxyVars, view>>

\* the clear button of page.tsx: {input && <button onClick={() => setInput('')}>}
ClearInput ==
  /\ variant = "messages"
  /\ input # <<>>
  /\ input' = <<>>
  /\ UNCHANGED <<variant, messages, loading, error, now, outstanding, fetchError,
                 inbox, outbox, proxyVars, view>>

\* if (!trimmedInput || loading) return, negated
CanSubmit(trimmedInput, isLoading) == trimmedInput # <<>> /\ ~isLoading

\* Mutant: the loading flag is not raised.
LoadingAfterSubmit_Missing == FALSE

\* setLoading(true)
LoadingAfterSubmit == TRUE

\* The send cycles the model explores for each controller.
CycleCap == IF variant = "messages" THEN MaxHistoryCycles ELSE MaxPromptCycles
CyclesStarted == Len(RemoveLoading(messages)) \div 2

\* handleSendMessage up to `await fetch`: the form's submit event
HandleSendMessage ==
  /\ CyclesStarted < CycleCap
  /\ LET trimmedInput == Trim(input)
         userMessage == Message(now, "user", trimmedInput, FALSE, {})
         loadingMessage == Message(now + LoadingIdOffset, "assistant", LoadingText, TRUE, {})
     IN  IF ~CanSubmit(trimmedInput, loading)
         THEN UNCHANGED vars
         ELSE /\ messages' = Append(Append(messages, userMessage), loadingMessage)
              /\ input' = <<>>
              /\ error' = Undef
              /\ loading' = LoadingAfterSubmit
              /\ inbox' = {Request(TRUE, "object", ChatBody(variant, messages, trimmedInput))}
              /\ outbox' = {}
              /\ fetchError' = {}
              /\ outstanding' = outstanding + 1
              /\ UNCHANGED <<variant, now, proxyVars, view>>

ErrFailedToFetch == Phrase("Failed to fetch")

\* The browser cannot reach /api/chat: the controller's fetch rejects.
FetchFails ==
  /\ outstanding > 0
  /\ inbox # {}
  /\ inbox' = {}
  /\ fetchError' = {ErrFailedToFetch}
  /\ UNCHANGED <<variant, messages, input, loading, error, now, outstanding, outbox,
                 proxyVars, view>>

\* Mutant: a failed response is reported with the generic text, whatever
\* error text its body carries.
FailureText_Generic(err, resp) ==
  IF err # {} THEN CHOOSE m \in err : TRUE
  ELSE LET r == CHOOSE x \in resp : TRUE
       IN  IF ~Ok(r.status) \/ r.body.success # {TRUE} THEN ErrGeneration ELSE Undef

\* The message of the Error thrown inside try, Undef when none is thrown.
FailureText(err, resp) ==
  IF err # {} THEN CHOOSE m \in err : TRUE
  ELSE LET r == CHOOSE x \in resp : TRUE
       IN  IF ~Ok(r.status)
           THEN OrText(r.body.error, Concat(ErrStatusPrefix, Phrase(ToString(r.status))))
           ELSE IF r.body.success # {TRUE}
           THEN OrText(r.body.error, ErrGeneration)
           ELSE Undef

\* handleSendMessage after `await fetch`: try (success), catch, finally
HandleSettled ==
  /\ outstanding > 0
  /\ fetchError # {} \/ outbox # {}
  /\ LET errorMsg == FailureText(fetchError, outbox)
         data == (CHOOSE x \in outbox : TRUE).body
     IN  IF errorMsg = Undef
         THEN /\ messages' = Append(RemoveLoading(messages),
                               Message(now + AssistantIdOffset, "assistant", data.code, FALSE,
                                       data.inference_time_ms))
              /\ error' = error
         ELSE /\ messages' = Append(RemoveLoading(messages),
                               Message(now + ErrorIdOffset, "assistant",
                                       Concat(ErrorPrefix, errorMsg), FALSE, {}))
              /\ error' = errorMsg
  /\ loading' = FALSE
  /\ outstanding' = outstanding - 1
  /\ UNCHANGED <<variant, input, now, fetchError, inbox, outbox, proxyVars, view>>

\* ------------------------------------------------- rendering of a message

\* msg.content.includes('```')
HasFence(content) == \E i \in 1..Len(content) : content[i][1] = Fence

\* msg.content.split('```')
RECURSIVE Split(_)
Split(content) ==
  IF ~HasFence(content) THEN <<content>>
  ELSE LET i == CHOOSE k \in 1..Len(content) :
                  /\ content[k][1] = Fence
                  /\ \A j \in 1..k - 1 : content[j][1] # Fence
           after == SubSeq(content, i + 1, Len(content))
           rest == IF content[i][2] > 1 THEN << <<Fence, content[i][2] - 1>> >> \o after
                   ELSE after
       IN  <<SubSeq(content, 1, i - 1)>> \o Split(rest)

\* Mutant: the even positions are taken for code.
IsCode_Even(idx) == idx % 2 = 0

\* const isCode = idx % 2 === 1
IsCode(idx) == idx % 2 = 1

\* part.replace(/^\w+\s*\n/, ''): a first line that is one word goes, with
\* the blank lines after it
StripLanguage(part) ==
  LET n == Len(part)
      w == Cardinality({k \in 1..n : \A j \in 1..k : part[j][1] \in WordAtoms})
      e == w + Cardinality({k \in w + 1..n : \A j \in w + 1..k : part[j][1] \in Spaces})
      nls == {j \in w + 1..e : part[j][1] = NL}
  IN  IF w = 0 \/ nls = {} THEN part
      ELSE SubSeq(part, (CHOOSE j \in nls : \A k \in nls : k <= j) + 1, n)

\* Mutant: every code block is given the latency.
InferenceTimeMs_Every(idx, msg) == msg.inferenceTime

\* inferenceTimeMs={idx === 1 ? msg.inferenceTime : undefined}
InferenceTimeMs(idx, msg) == IF idx = 1 THEN msg.inferenceTime ELSE {}

\* Mutant: the text of a reply without a fence marker is trimmed.
PlainText_Trimmed(content) == Trim(content)

\* <ReactMarkdown>{msg.content}</ReactMarkdown>
PlainText(content) == content

\* An element returned for a message: a CodeBlock, a prose block
\* (ReactMarkdown) or the bubble of a user message.  CodeBlock shows the
\* latency when inferenceTimeMs != null.
Segment(kind, key, text, inferenceTimeMs) ==
  [kind |-> kind, key |-> key, text |-> text, inferenceTimeMs |-> inferenceTimeMs]

\* The callback of parts.map: {} stands for null, which React renders as nothing.
RenderPart(msg, part, idx) ==
  IF Trim(part) = <<>> THEN {}
  ELSE IF IsCode(idx)
  THEN {Segment("code", idx, Trim(StripLanguage(part)), InferenceTimeMs(idx, msg))}
  ELSE {Segment("prose", idx, Trim(part), {})}

\* What messages.map returns for one message: the array of its elements.
RenderMessage(msg) ==
  IF msg.role = "assistant"
  THEN IF HasFence(msg.content)
       THEN LET parts == Split(msg.content)
            IN  [i \in 1..Len(parts) |-> RenderPart(msg, parts[i], i - 1)]
       ELSE << {Segment("prose", 0, PlainText(msg.content), {})} >>
  ELSE << {Segment("user", 0, msg.content, {})} >>

\* Home returns its JSX: messages.map((msg) => ...)
Render ==
  /\ view' = [m \in 1..Len(messages) |-> RenderMessage(messages[m])]
  /\ UNCHANGED <<variant, messages, input, loading, error, now, outstanding, fetchError,
                 inbox, outbox, proxyVars>>

\* ----------------------------------------------------------- specifications

Init ==
  /\ variant \in {"messages", "prompt"}
  /\ messages = <<WelcomeMessage>>
  /\ input = <<>>
  /\ loading = FALSE
  /\ error = Undef
  /\ now = 1
  /\ outstanding = 0
  /\ fetchError = {}
  /\ inbox = {}
  /\ outbox = {}
  /\ proxyPc = "idle"
  /\ proxyReq = {}
  /\ forwarded = {}
  /\ iaResult = {}
  /\ upstreamCalls = 0
  /\ view = <<>>

Next ==
  \/ \E txt \in UserInputs : TypeInput(txt)
  \/ ClearInput
  \/ HandleSendMessage
  \/ FetchFails
  \/ ProxyReceive
  \/ UpstreamSettle
  \/ ProxyResume
  \/ HandleSettled

Spec == Init /\ [][Next]_vars

\* The handlers run once their events are there; the user, the network and the
\* inference server owe nothing.
FairSpec ==
  /\ Spec
  /\ WF_vars(ProxyReceive)
  /\ WF_vars(ProxyResume)
  /\ WF_vars(HandleSettled)

\* A millisecond passes.
Tick ==
  /\ now < MaxClock
  /\ now' = now + 1
  /\ UNCHANGED <<variant, messages, input, loading, error, outstanding, fetchError,
                 inbox, outbox, proxyVars, view>>

\* The controller and the proxy with the clock running: any number of
\* milliseconds may pass between two steps.
\* A submit, for as long as the cycles explored with the clock last.
ClockSubmit == HandleSendMessage /\ CyclesStarted' <= MaxClockCycles

ClockNext ==
  \/ Tick
  \/ \E txt \in UserInputs : TypeInput(txt)
  \/ ClearInput
  \/ ClockSubmit
  \/ FetchFails
  \/ ProxyReceive
  \/ UpstreamSettle
  \/ ProxyResume
  \/ HandleSettled

ClockSpec == Init /\ [][ClockNext]_vars

\* The Proxy Endpoint alone, called by any HTTP client.
Prompts ==
  { JUndef, JOther, JStr(<<>>), JStr(Txt(WS, 3)), JStr(Txt("a", 1)),
    JStr(<< <<WS, 1>>, <<"a", 1>>, <<WS, 1>> >>),
    JStr(Txt("a", MaxPromptLength)), JStr(Txt("a", MaxPromptLength + 1)),
    JStr(Txt(WS, MaxPromptLength + 1)) }
MessageArrays == { {}, {<< [role |-> "user", content |-> Txt("a", 1)] >>} }
MaxTokensValues == { {}, {0}, {256} }
TemperatureValues ==
  { {}, {MinTemperature - 10}, {MinTemperature}, {50}, {MaxTemperature},
    {MaxTemperature + 50} }

DirectRequests ==
  { Request(FALSE, "object", EmptyBody), Request(TRUE, "invalid", EmptyBody),
    Request(TRUE, "null", EmptyBody),
    Request(FALSE, "object", Body(JStr(Txt("a", 1)), {}, {}, {})) }
  \cup { Request(TRUE, "object", Body(p, m, k, t)) :
           p \in Prompts, m \in MessageArrays, k \in MaxTokensValues,
           t \in TemperatureValues }

\* A client sends a request; POST runs afresh for it, with nothing kept from
\* the request before.
ClientSend(req) ==
  /\ proxyPc # "awaitUpstream"
  /\ inbox = {}
  /\ inbox' = {req}
  /\ outbox' = {}
  /\ proxyPc' = "idle"
  /\ proxyReq' = {}
  /\ forwarded' = {}
  /\ iaResult' = {}
  /\ upstreamCalls' = 0
  /\ UNCHANGED ctlVars

ProxyNext ==
  \/ \E req \in DirectRequests : ClientSend(req)
  \/ ProxyReceive
  \/ UpstreamSettle
  \/ ProxyResume

ProxySpec == Init /\ [][ProxyNext]_vars

FairProxySpec ==
  /\ ProxySpec
  /\ WF_vars(ProxyReceive)
  /\ WF_vars(ProxyResume)

\* The rendering alone: the conversation after one cycle that ended with a
\* reply, for any reply text of up to MaxReplyLen pieces, with and without a
\* latency.
ReplyAtoms == {Fence, NL, WS, "python", "x = 1"}
RECURSIVE Runs(_)
Runs(pieces) ==
  IF pieces = <<>> THEN <<>>
  ELSE LET r == Runs(Tail(pieces))
       IN  IF r # <<>> /\ r[1][1] = Head(pieces)
           THEN << <<Head(pieces), r[1][2] + 1>> >> \o Tail(r)
           ELSE << <<Head(pieces), 1>> >> \o r
ReplyTexts == {Runs(p) : p \in UNION {[1..k -> ReplyAtoms] : k \in 0..MaxReplyLen}}
ReplyTimes == { {}, {123456} }

RenderInit ==
  /\ variant = "prompt"
  /\ now = 1
  /\ messages \in { << WelcomeMessage,
                       Message(now, "user", Txt("a", 1), FALSE, {}),
                       Message(now + AssistantIdOffset, "assistant", c, FALSE, t) >> :
                    c \in ReplyTexts, t \in ReplyTimes }
  /\ input = <<>>
  /\ loading = FALSE
  /\ error = Undef
  /\ outstanding = 0
  /\ fetchError = {}
  /\ inbox = {}
  /\ outbox = {}
  /\ proxyPc = "idle"
  /\ proxyReq = {}
  /\ forwarded = {}
  /\ iaResult = {}
  /\ upstreamCalls = 0
  /\ view = <<>>

RenderNext == Render

RenderSpec == RenderInit /\ [][RenderNext]_vars

\* ------------------------------------------------------------------ claims

PendingIdx == {i \in 1..Len(messages) : messages[i].loading}
Awaiting == loading /\ PendingIdx # {}
Idle == ~loading /\ PendingIdx = {}

\* C1: in every reachable state at most one message has the loading flag, and
\* a message that has it is the last of the list.
C1_PendingPlaceholder ==
  /\ Cardinality(PendingIdx) <= 1
  /\ \A i \in PendingIdx : i = Len(messages)

\* C1 witness: a placeholder is pending in a later cycle, after an earlier
\* cycle resolved with a response.
C1_Witness ==
  /\ PendingIdx = {Len(messages)}
  /\ Len(messages) >= 5
  /\ \E i \in 2..Len(messages) - 2 : messages[i].role = "assistant"

\* C2: the controller never has more than one request outstanding, and no
\* step taken while a request is in flight appends a message or issues a
\* request.
C2_SingleOutstanding ==
  [][/\ outstanding' <= 1
     /\ loading => /\ Len(messages') <= Len(messages)
                   /\ outstanding' <= outstanding
                   /\ inbox' \subseteq inbox]_vars

\* C2 witness: a request is in flight at the proxy while the submit event can
\* still arrive.
C2_Witness ==
  /\ loading
  /\ outstanding = 1
  /\ proxyPc = "awaitUpstream"
  /\ ENABLED HandleSendMessage

\* The positions of the conversation that count for the history: every
\* message but the first (the welcome message) and the pending placeholder.
HistoryIdx == {i \in 2..Len(messages) : ~messages[i].loading}
\* The m-th of them, in order.
NthHistoryIdx(m) == CHOOSE i \in HistoryIdx : Cardinality({x \in HistoryIdx : x <= i}) = m
\* The history of the request the controller has just issued.
SentHistories == {h \in UNION {r.body.messages : r \in inbox} : loading}

\* C7: the `messages` sent to the proxy are the last 10 (all, when fewer) of
\* the non-pending, non-welcome messages followed by the new user message,
\* each as {role, content}: at most 10 entries, neither the welcome message
\* nor a placeholder among them, the new user message last.
C7_HistoryWindow ==
  \A h \in SentHistories :
    LET n == Cardinality(HistoryIdx)
        k == IF n <= HistoryWindow THEN n ELSE HistoryWindow
    IN  /\ Len(h) = k
        /\ Len(h) <= HistoryWindow
        /\ \A j \in 1..k :
             LET m == messages[NthHistoryIdx(n - k + j)]
             IN  h[j] = [role |-> m.role, content |-> m.content]
        /\ \A j \in 1..Len(h) : h[j].content # WelcomeText /\ h[j].content # LoadingText
        /\ h[Len(h)] = [role |-> "user", content |-> messages[Len(messages) - 1].content]
        /\ messages[Len(messages) - 1].role = "user"

\* C7 witness: a request is sent with 12 earlier messages in the history, so
\* that the window drops the oldest three of the 13 entries.
C7_Witness ==
  /\ SentHistories # {}
  /\ inbox # {}
  /\ Cardinality(HistoryIdx) = 13
  /\ \A h \in SentHistories : Len(h) = HistoryWindow

\* C3: whenever the controller is Awaiting it is eventually Idle again.
C3_CycleEnds == Awaiting ~> Idle

\* C4: the outbound call is bounded: a handler that waits for the inference
\* server eventually returns a response, also when the server never answers.
C4_BoundedWait == (proxyPc = "awaitUpstream") ~> (proxyPc = "done")

\* The cycle has resolved and nothing outside the program failed in it: the
\* controller's fetch was delivered and the inference server gave no
\* non-success answer and no outbound call failed.
LastMessage == messages[Len(messages)]
ResolvedUnfailed ==
  /\ Idle
  /\ Len(messages) > 1
  /\ fetchError = {}
  /\ outbox # {}
  /\ \A o \in iaResult : o.kind = "response" /\ Ok(o.status) /\ o.json /\ o.data.success = {TRUE}

\* C5: a cycle submitted with non-empty input (here of at most 2000
\* characters) that resolves without a failure of the network or of the
\* inference server ends with the placeholder replaced by an assistant message
\* carrying the generated code and its latency, the input field cleared and no
\* error banner.
C5_SuccessPath ==
  (ResolvedUnfailed /\ Length(messages[Len(messages) - 1].content) <= MaxPromptLength)
    => /\ LastMessage.role = "assistant"
       /\ LastMessage.content = GeneratedCode
       /\ LastMessage.inferenceTime # {}
       /\ error = Undef

\* The proxy has answered a request that carries a non-empty `messages` array
\* and no `prompt`, with valid parameters.
MessagesRequestAnswered ==
  /\ proxyPc = "done"
  /\ \E r \in proxyReq :
       /\ r.contentType /\ r.json = "object"
       /\ r.body.prompt = JUndef
       /\ \E h \in r.body.messages : Len(h) > 0
       /\ \A x \in r.body.temperature : x >= MinTemperature /\ x <= MaxTemperature

\* C6: a request with a `messages` array instead of a `prompt` is forwarded to
\* the inference server and is not answered with a client error.
C6_MessagesAccepted ==
  MessagesRequestAnswered
    => /\ upstreamCalls = 1
       /\ \A r \in outbox : r.status < 400 \/ r.status > 499

\* The request POST is handling or has answered, when it is a JSON object
\* sent as application/json.
JsonRequests == {r \in proxyReq : r.contentType /\ r.json = "object"}
NonBlank(p) == p.t = "str" /\ \E i \in 1..Len(p.v) : p.v[i][1] # WS
PromptInBounds(p) == NonBlank(p) /\ Length(p.v) >= 1 /\ Length(p.v) <= MaxPromptLength
TemperatureInBounds(t) == \A x \in t : x >= MinTemperature /\ x <= MaxTemperature
Accepted == proxyPc \in {"awaitUpstream", "done"} /\ forwarded # {}
RejectedWith(err) ==
  /\ proxyPc = "done"
  /\ forwarded = {}
  /\ \A r \in outbox : r.status = 400 /\ r.body.error = err
  /\ outbox # {}

C9_EmptyInput ==
  \A r \in JsonRequests :
    (r.body.prompt.t = "str" /\ Trim(r.body.prompt.v) = <<>>) => RejectedWith(ErrPromptEmpty)

\* A valid request: prompt and temperature in bounds, max_tokens absent or a
\* positive integer.
ValidRequests ==
  {r \in JsonRequests : /\ PromptInBounds(r.body.prompt)
                         /\ TemperatureInBounds(r.body.temperature)
                         /\ \A k \in r.body.max_tokens : k > 0}

\* C10: the payload forwarded for a valid request carries the prompt
\* unchanged, max_tokens as supplied or 512, temperature as supplied (0 and 1
\* included) or 0.7.
C10_NormalizedPayload ==
  \A r \in ValidRequests :
    \A f \in forwarded :
      /\ f.prompt = r.body.prompt.v
      /\ f.max_tokens \in (IF r.body.max_tokens = {} THEN {DefaultMaxTokens} ELSE r.body.max_tokens)
      /\ f.temperature \in (IF r.body.temperature = {} THEN {DefaultTemperature}
                            ELSE r.body.temperature)

\* The outbound call settled as o and POST answered with r.
Answered(o, r) == proxyPc = "done" /\ o \in iaResult /\ r \in outbox

\* C11: when the inference server answers with a non-success status S, the
\* proxy's response has status S, success false, and carries the text of the
\* upstream error body.
C11_UpstreamRelay ==
  \A o \in UpstreamOutcomes, r \in outbox :
    (Answered(o, r) /\ o.kind = "response" /\ ~Ok(o.status))
      => /\ r.status = o.status
         /\ r.body.success = {FALSE}
         /\ r.body.details = o.text
         /\ r.body.error # Undef

\* C11 witness: an upstream 503 with its body text has been relayed.
C11_Witness ==
  \E o \in iaResult, r \in outbox :
    /\ Answered(o, r)
    /\ o.kind = "response" /\ o.status = 503
    /\ r.status = 503 /\ r.body.details = UpstreamBusyText

\* The text t holds the phrase as one of its pieces.
Names(t, phrase) == t # Undef /\ \E i \in 1..Len(t) : <<t[i]>> = phrase

\* C12: a timed-out outbound call is answered 504, a connection failure 503
\* with a hint naming the configured upstream address, any other unexpected
\* failure 500 carrying its description; POST never ends without a response.
C12_FailureClassification ==
  /\ proxyPc = "done" => outbox # {}
  /\ \A o \in UpstreamOutcomes, r \in outbox :
       Answered(o, r) =>
         /\ o.cause = "timeout" => r.status = 504
         /\ o.cause = "connect" => (r.status = 503 /\ Names(r.body.hint, IA_SERVER_URL))
         /\ (o.kind = "response" /\ Ok(o.status) /\ ~o.json)
              => (r.status = 500 /\ Names(r.body.error, ErrJsonParse))

\* C13: every response of POST with a status other than 200 has success false
\* and an error text, and no response with status 200 has success false.
C13_FailureShape ==
  \A r \in outbox :
    /\ r.status # 200 => (r.body.success = {FALSE} /\ r.body.error # Undef)
    /\ r.status = 200 => r.body.success # {FALSE}

\* C14: when the inference server answers with a success status and a JSON
\* body, the proxy answers 200 with code, tokens_generated, inference_time_ms
\* and gpu_memory equal to the upstream values, and its success flag is true
\* exactly when the upstream success flag is true.
C14_SuccessRelay ==
  \A o \in UpstreamOutcomes, r \in outbox :
    (Answered(o, r) /\ o.kind = "response" /\ Ok(o.status) /\ o.json)
      => /\ r.status = 200
         /\ r.body.code = o.data.code
         /\ r.body.tokens_generated = o.data.tokens_generated
         /\ r.body.inference_time_ms = o.data.inference_time_ms
         /\ r.body.gpu_memory = o.data.gpu_memory
         /\ (r.body.success = {TRUE}) <=> (o.data.success = {TRUE})

\* The awaited call has settled as a failure: the fetch rejected, or the
\* response has a non-success status, or it is a 200 without success true.
SettledAsFailure ==
  /\ outstanding > 0
  /\ \/ fetchError # {}
     \/ \E r \in outbox : ~Ok(r.status) \/ r.body.success # {TRUE}
\* The failure text of that settlement: the rejection's message, or the error
\* text of the response body.
SettledFailureTexts ==
  IF fetchError # {} THEN fetchError ELSE {r.body.error : r \in outbox} \ {Undef}

\* C15: the step that handles a failed cycle removes the placeholder, appends
\* exactly one assistant message whose content is the error prefix followed
\* by the failure text, sets the banner to the failure text and clears
\* loading; a banner that is set changes only by being cleared by a submit.
C15_FailureHandling ==
  [][ /\ (SettledAsFailure /\ outstanding' < outstanding)
         => \E t \in SettledFailureTexts :
              /\ messages[Len(messages)].loading
              /\ Len(messages') = Len(messages)
              /\ SubSeq(messages', 1, Len(messages) - 1) = SubSeq(messages, 1, Len(messages) - 1)
              /\ messages'[Len(messages')].role = "assistant"
              /\ messages'[Len(messages')].content = Concat(ErrorPrefix, t)
              /\ ~messages'[Len(messages')].loading
              /\ error' = t
              /\ ~loading'
      /\ (error # Undef /\ error' # error)
         => /\ error' = Undef
            /\ ~loading /\ loading'
            /\ Len(messages') = Len(messages) + 2 ]_vars

\* C15 witness: a second cycle has failed after a first failed cycle, so the
\* banner of the first failure was cleared by the submit in between; the
\* banner shows the text of the second failure, a rejection by the proxy.
C15_Witness ==
  /\ ~loading
  /\ PendingIdx = {}
  /\ Len(messages) >= 5
  /\ messages[3].content[1] = ErrorPrefix[1]
  /\ error # Undef
  /\ messages[Len(messages)].content = Concat(ErrorPrefix, error)
  /\ \E r \in outbox : r.status = 400 /\ r.body.error = error

\* C16: in every reachable state, whatever the timing of submits and
\* responses, no two messages of the list have the same id.
C16_UniqueIds ==
  \A i, j \in 1..Len(messages) : i # j => messages[i].id # messages[j].id

\* The assistant messages the last Render step has rendered.
RenderedReplies ==
  {m \in 1..Len(view) : m <= Len(messages) /\ messages[m].role = "assistant"}
\* The number of fence markers in a text.
NumFences(content) == Length(SelectSeq(content, LAMBDA r : r[1] = Fence))
\* A text with nothing but whitespace in it.
Blank(text) == \A j \in 1..Len(text) : text[j][1] \in Spaces
\* The parts put together again with a fence marker between neighbours.
RECURSIVE Rejoin(_)
Rejoin(parts) ==
  IF Len(parts) = 1 THEN parts[1]
  ELSE Concat(Concat(parts[1], Phrase(Fence)), Rejoin(Tail(parts)))
\* The positions, from 0, of the parts of message m rendered as a kind.
RenderedAs(m, kind) ==
  {i \in 0..Len(view[m]) - 1 : \E seg \in view[m][i + 1] : seg.kind = kind}

\* C17: a reply with a fence marker is split at every marker; the part at
\* position i (from 0) is rendered as prose when i is even and as code when i
\* is odd, a part that is blank after trimming is rendered as nothing, and
\* the rendered parts keep their order.
C17_Segmentation ==
  \A m \in RenderedReplies :
    HasFence(messages[m].content) =>
      LET parts == Split(messages[m].content)
      IN  /\ Len(parts) = NumFences(messages[m].content) + 1
          /\ \A i \in 1..Len(parts) : ~HasFence(parts[i])
          /\ Rejoin(parts) = messages[m].content
          /\ Len(view[m]) = Len(parts)
          /\ \A i \in 1..Len(parts) :
               /\ Blank(parts[i]) <=> view[m][i] = {}
               /\ Cardinality(view[m][i]) <= 1
               /\ \A seg \in view[m][i] :
                    /\ seg.key = i - 1
                    /\ seg.kind = (IF (i - 1) % 2 = 0 THEN "prose" ELSE "code")
                    /\ seg.kind = "prose" => seg.text = Trim(parts[i])

\* C17 witness: a reply of prose, code, prose has been rendered as three
\* segments in that order.
C17_Witness ==
  \E m \in RenderedReplies :
    /\ Len(view[m]) = 3
    /\ RenderedAs(m, "prose") = {0, 2}
    /\ RenderedAs(m, "code") = {1}

\* C18 as stated: a reply with no fence marker is rendered as exactly one
\* prose segment whose text is the reply text trimmed of leading and trailing
\* whitespace.
C18_PlainTrimmed ==
  \A m \in RenderedReplies :
    ~HasFence(messages[m].content) =>
      /\ Len(view[m]) = 1
      /\ \E seg \in view[m][1] :
           /\ view[m][1] = {seg}
           /\ seg.kind = "prose"
           /\ seg.text = Trim(messages[m].content)

\* C18: a reply with no fence marker is rendered as exactly one prose segment
\* whose text is the reply text as it is, leading and trailing whitespace
\* included.
C18_PlainVerbatim ==
  \A m \in RenderedReplies :
    ~HasFence(messages[m].content) =>
      /\ Len(view[m]) = 1
      /\ \E seg \in view[m][1] :
           /\ view[m][1] = {seg}
           /\ seg.kind = "prose"
           /\ seg.text = messages[m].content

\* C18 witness: a reply without a fence marker that begins or ends with
\* whitespace has been rendered, with that whitespace in the segment's text.
C18_Witness ==
  \E m \in RenderedReplies :
    /\ ~HasFence(messages[m].content)
    /\ Trim(messages[m].content) # messages[m].content
    /\ Trim(messages[m].content) # <<>>
    /\ \E seg \in view[m][1] : seg.text = messages[m].content

\* C19 as stated: in a reply rendered with one or more code segments, the
\* first code segment rendered carries the latency of the message and no
\* later one carries a latency.
C19_FirstRenderedAnnotated ==
  \A m \in RenderedReplies :
    \A i \in RenderedAs(m, "code") :
      \A seg \in view[m][i + 1] :
        IF \A k \in RenderedAs(m, "code") : i <= k
        THEN seg.inferenceTimeMs = messages[m].inferenceTime
        ELSE seg.inferenceTimeMs = {}

\* C19: the code segment made of the part at position 1, the one right after
\* the first fence marker, carries the latency of the message when it is
\* rendered, and no other segment carries a latency; when that part is blank
\* no segment of the reply carries it.
C19_SecondPartAnnotated ==
  \A m \in RenderedReplies :
    \A i \in 0..Len(view[m]) - 1 :
      \A seg \in view[m][i + 1] :
        IF i = 1
        THEN seg.kind = "code" /\ seg.inferenceTimeMs = messages[m].inferenceTime
        ELSE seg.inferenceTimeMs = {}

\* C19 witness: a reply with a latency has been rendered with two code
\* segments, the first with the latency and the second without.
C19_Witness ==
  \E m \in RenderedReplies :
    /\ messages[m].inferenceTime # {}
    /\ RenderedAs(m, "code") = {1, 3}
    /\ \A seg \in view[m][2] : seg.inferenceTimeMs = messages[m].inferenceTime
    /\ \A seg \in view[m][4] : seg.inferenceTimeMs = {}

====
